---- MODULE Spec2Model ----
(***************************************************************************)
(* DocuChat Document Service (backend/main.py): the process-wide state     *)
(* (vector_store, qa_chain, current_document_name), the persisted Chroma   *)
(* collection, the temporary upload files, and the four HTTP handlers.     *)
(* Text is modelled as a sequence of one-character strings.                *)
(***************************************************************************)
EXTENDS Integers, Sequences, FiniteSets, TLC

VARIABLES
    vector_store,           \* main.py:40  None or the Chroma handle
    qa_chain,               \* main.py:41  None or the RetrievalQA chain
    current_document_name,  \* main.py:42  None or a file name
    chroma_db,              \* the directory CHROMA_DB_PATH: None or the persisted collection
    temp_files,             \* paths of the NamedTemporaryFile files that exist
    pending,                \* uploads suspended at "await file.read()"
    ingest_seq,             \* number of temporary files created so far
    resp,                   \* the response sent last
    served,                 \* parity of the number of responses sent
    last_ok,                \* the last successful upload, until the next upload or clear
    loop,                   \* the request the event loop is running, None when it is idle
    chat_history,           \* frontend/app.py:124  st.session_state.chat_history
    waiting,                \* the upload the page is waiting on, None when there is none
    ui                      \* what the page rendered for the last button pressed

vars == <<vector_store, qa_chain, current_document_name, chroma_db, temp_files,
          pending, ingest_seq, resp, served, last_ok,
          loop, chat_history, waiting, ui>>

\* The page's session, and the variables of the finer-grained views.
client_vars == <<chat_history, waiting, ui>>

\* The three globals that make up the System State.
system_state == <<vector_store, qa_chain, current_document_name>>

-----------------------------------------------------------------------------
(* Bounds *)

\* Uploads that get as far as creating a temporary file.
MaxIngests == 2

\* Questions the page's transcript can hold.
MaxTurns == 2

-----------------------------------------------------------------------------
(* Optional[...] values *)

None == {}
Some(x) == {x}
Get(o) == CHOOSE x \in o : TRUE

-----------------------------------------------------------------------------
(* Text helpers *)

\* str.lower() on the characters that occur in the model.
LowerChar(c) ==
    CASE c = "P" -> "p"
      [] c = "D" -> "d"
      [] c = "F" -> "f"
      [] c = "T" -> "t"
      [] c = "X" -> "x"
      [] OTHER -> c

Lower(s) == [i \in 1..Len(s) |-> LowerChar(s[i])]

\* Index of the last occurrence of c in s, 0 when there is none (str.rfind + 1).
LastIndexOf(s, c) ==
    LET hits == {i \in 1..Len(s) : s[i] = c}
    IN  IF hits = {} THEN 0 ELSE CHOOSE i \in hits : \A j \in hits : j <= i

\* os.path.splitext(p)[1]: the text from the last dot of the last path
\* component, empty when that component has no dot or only leading dots.
SplitExt(p) ==
    LET sep == LastIndexOf(p, "/")
        dot == LastIndexOf(p, ".")
    IN  IF dot > sep /\ \E i \in (sep + 1)..(dot - 1) : p[i] # "."
        THEN SubSeq(p, dot, Len(p))
        ELSE <<>>

\* os.path.basename(p): the text after the last "/".
Basename(p) == SubSeq(p, LastIndexOf(p, "/") + 1, Len(p))

\* A text of n copies of the character c.
MkText(c, n) == [i \in 1..n |-> c]

-----------------------------------------------------------------------------
(* Program constants *)

\* Length of a source preview.
PreviewLimit == 100

\* Number of chunks the retriever returns (search_kwargs k).
TopK == 3

AllowedExtensions == {<<".", "p", "d", "f">>, <<".", "t", "x", "t">>}

MsgNoFilename == "Nombre de archivo no proporcionado"
MsgBadExtension == "Solo se permiten archivos PDF (.pdf) y texto (.txt)"
MsgIngestError == "Error procesando documento"
MsgNoDocument == "No hay ningun documento cargado. Por favor, sube un documento primero."
MsgAskError == "Error generando respuesta"
MsgCleared == "Documento limpiado exitosamente"

-----------------------------------------------------------------------------
(* Inputs *)

\* Uploaded files: the declared filename and the character the text is made of.
Uploads ==
    { [filename |-> <<>>,                                   doc |-> "a"],
      [filename |-> <<"r", ".", "p", "d", "f">>,            doc |-> "a"],
      [filename |-> <<"n", ".", "T", "X", "T">>,            doc |-> "b"],
      [filename |-> <<"c", ".", "d", "o", "c", "x">>,       doc |-> "a"],
      [filename |-> <<".", "p", "d", "f">>,                 doc |-> "a"],
      [filename |-> <<"t", "x", "t">>,                      doc |-> "b"] }

\* Questions, told apart by which end of the collection is most similar to them.
Questions == {"oldest", "newest"}

\* Points at which an upload can fail after its temporary file exists,
\* in the order the handler passes them; "none" is the successful upload.
Stages == <<"read", "load", "split", "embed", "chain", "unlink", "none">>

StageIndex(s) == CHOOSE i \in 1..Len(Stages) : Stages[i] = s

\* The handler got past stage s when it failed at, or completed with, fail.
Passed(fail, s) == StageIndex(fail) > StageIndex(s)

-----------------------------------------------------------------------------
(* External collaborators *)

\* NamedTemporaryFile(delete=False, suffix=ext).name: a fresh path ending in ext.
TempPath(n, ext) == <<"/", "t", "m", "p", "/", "t", "m", "p", ToString(n)>> \o ext

\* get_file_loader: the loader chosen from the extension.
GetFileLoader(ext) ==
    IF Lower(ext) = <<".", "p", "d", "f">> THEN "PyPDFLoader"
    ELSE IF Lower(ext) = <<".", "t", "x", "t">> THEN "TextLoader"
    ELSE "ValueError"

\* RecursiveCharacterTextSplitter.split_documents: the chunk lengths of a document.
SplitLens(doc) ==
    IF doc = "a" THEN <<PreviewLimit, PreviewLimit + 1>>
    ELSE <<80, 150, PreviewLimit - 1>>

\* The chunks one upload adds to the collection.
Chunks(n, doc) ==
    { [ingest |-> n, doc |-> doc, idx |-> i] : i \in 1..Len(SplitLens(doc)) }

\* page_content of a chunk.
ChunkText(c) == MkText(c.doc, SplitLens(c.doc)[c.idx])

\* The documents held by the persisted collection.
Collection == IF chroma_db = None THEN {} ELSE Get(chroma_db)

\* Position of a chunk in insertion order.
ChunkKey(c) == c.ingest * 10 + c.idx

\* The chunk of coll most similar to question q.
Nearest(q, coll) ==
    IF q = "oldest"
    THEN CHOOSE c \in coll : \A d \in coll : ChunkKey(c) <= ChunkKey(d)
    ELSE CHOOSE c \in coll : \A d \in coll : ChunkKey(c) >= ChunkKey(d)

\* retriever.get_relevant_documents: the k chunks most similar to q, best first.
RECURSIVE Retrieve(_, _, _)
Retrieve(q, coll, k) ==
    IF k = 0 \/ coll = {} THEN <<>>
    ELSE LET c == Nearest(q, coll)
         IN  <<c>> \o Retrieve(q, coll \ {c}, k - 1)

-----------------------------------------------------------------------------
(* Pure parts of the handlers *)

\* The extension check without the allow-list: any extension passes.
ExtensionAllowedAny(ext) == ext # <<>>

\* process_document_endpoint: the extension check.
ExtensionAllowed(ext) == Lower(ext) \in AllowedExtensions

\* The preview with the length test off by one.
PreviewOffByOne(text) ==
    IF Len(text) >= PreviewLimit
    THEN SubSeq(text, 1, PreviewLimit) \o <<".", ".", ".">>
    ELSE text

\* ask_question: the preview of one source document.
Preview(text) ==
    IF Len(text) > PreviewLimit
    THEN SubSeq(text, 1, PreviewLimit) \o <<".", ".", ".">>
    ELSE text

\* ask_question: the sources list, one preview per source document.
Sources(docs) == [i \in 1..Len(docs) |-> Preview(ChunkText(docs[i]))]

\* The guard left out: every question goes to the chain.
AskRejectedNever(chain, store) == FALSE

\* ask_question: the guard that rejects a question.
AskRejected(chain, store) == chain = None \/ store = None

\* The response body with the collection's count left out.
StatusResponseNoCount(store, name, count) ==
    IF store = None
    THEN [op |-> "status", status |-> 200, document_loaded |-> FALSE,
          document_name |-> None, chunks_count |-> None]
    ELSE [op |-> "status", status |-> 200, document_loaded |-> TRUE,
          document_name |-> name, chunks_count |-> None]

\* get_status: the response body.
StatusResponse(store, name, count) ==
    IF store = None
    THEN [op |-> "status", status |-> 200, document_loaded |-> FALSE,
          document_name |-> None, chunks_count |-> None]
    ELSE [op |-> "status", status |-> 200, document_loaded |-> TRUE,
          document_name |-> name, chunks_count |-> Some(count)]

\* The status if a failed rmtree were surfaced to the caller.
ClearStatusSurfaced(rmtree) == IF rmtree = "failed" THEN 500 ELSE 200

\* clear_document: the status it answers with, whatever shutil.rmtree did.
ClearStatus(rmtree) == 200

\* Empty, Loaded, or neither.
StateKind ==
    IF vector_store = None /\ qa_chain = None /\ current_document_name = None
        THEN "empty"
    ELSE IF vector_store # None /\ qa_chain # None /\ current_document_name # None
        THEN "loaded"
    ELSE "partial"

-----------------------------------------------------------------------------
(* Initial state: the module-level globals, an empty working directory *)

Init ==
    /\ vector_store = None
    /\ qa_chain = None
    /\ current_document_name = None
    /\ chroma_db = None
    /\ temp_files = {}
    /\ pending = {}
    /\ ingest_seq = 0
    /\ resp = [op |-> "none", status |-> 0]
    /\ served = 0
    /\ last_ok = None
    /\ loop = None
    /\ chat_history = <<>>
    /\ waiting = None
    /\ ui = [event |-> "none", q |-> "", net |-> "ok", ok |-> FALSE,
             error |-> FALSE, n |-> 0, had |-> FALSE]

-----------------------------------------------------------------------------
(* GET /status *)

GetStatus ==
    /\ resp' = StatusResponse(vector_store, current_document_name,
                              Cardinality(Collection))
    /\ served' = 1 - served
    /\ UNCHANGED <<vector_store, qa_chain, current_document_name, chroma_db,
                   temp_files, pending, ingest_seq, last_ok>>

-----------------------------------------------------------------------------
(* DELETE /clear-document *)

\* The reset with the document name forgotten.
ResetGlobalsKeepName ==
    /\ vector_store' = None
    /\ qa_chain' = None
    /\ current_document_name' = current_document_name

\* The three assignments that reset the globals.
ResetGlobals ==
    /\ vector_store' = None
    /\ qa_chain' = None
    /\ current_document_name' = None

\* rmtree: "absent" (the path does not exist), "removed", or "failed" (it raised).
ClearDocument(rmtree) ==
    /\ rmtree = "absent" <=> chroma_db = None
    /\ ResetGlobals
    /\ chroma_db' = IF rmtree = "removed" THEN None ELSE chroma_db
    /\ resp' = [op |-> "clear", status |-> ClearStatus(rmtree),
                message |-> MsgCleared, logged |-> (rmtree = "failed"),
                was |-> StateKind]
    /\ served' = 1 - served
    /\ last_ok' = None
    /\ UNCHANGED <<temp_files, pending, ingest_seq>>

-----------------------------------------------------------------------------
(* POST /ask *)

\* The handler if a failed chain call dropped the chain.
AskQuestionDropsChain(q, outcome) ==
    /\ outcome = "rejected" <=> AskRejected(qa_chain, vector_store)
    /\ outcome = "ok" => qa_chain # None
    /\ resp' =
         CASE outcome = "rejected" ->
                [op |-> "ask", status |-> 400, detail |-> MsgNoDocument,
                 invoked |-> FALSE, was |-> StateKind]
           [] outcome = "ok" ->
                LET docs == Retrieve(q, Collection, TopK)
                IN  [op |-> "ask", status |-> 200, answer |-> "result",
                     sources |-> Sources(docs), retrieved |-> docs,
                     invoked |-> TRUE, was |-> StateKind]
           [] outcome = "error" ->
                [op |-> "ask", status |-> 500, detail |-> MsgAskError,
                 invoked |-> TRUE, was |-> StateKind]
    /\ served' = 1 - served
    /\ qa_chain' = IF outcome = "error" THEN None ELSE qa_chain
    /\ UNCHANGED <<vector_store, current_document_name, chroma_db,
                   temp_files, pending, ingest_seq, last_ok>>

\* outcome: "rejected" (no document), "ok" (the chain answered) or "error"
\* (calling the chain raised).
AskQuestion(q, outcome) ==
    /\ outcome = "rejected" <=> AskRejected(qa_chain, vector_store)
    /\ outcome = "ok" => qa_chain # None
    /\ resp' =
         CASE outcome = "rejected" ->
                [op |-> "ask", status |-> 400, detail |-> MsgNoDocument,
                 invoked |-> FALSE, was |-> StateKind]
           [] outcome = "ok" ->
                LET docs == Retrieve(q, Collection, TopK)
                IN  [op |-> "ask", status |-> 200, answer |-> "result",
                     sources |-> Sources(docs), retrieved |-> docs,
                     invoked |-> TRUE, was |-> StateKind]
           [] outcome = "error" ->
                [op |-> "ask", status |-> 500, detail |-> MsgAskError,
                 invoked |-> TRUE, was |-> StateKind]
    /\ served' = 1 - served
    /\ UNCHANGED <<vector_store, qa_chain, current_document_name, chroma_db,
                   temp_files, pending, ingest_seq, last_ok>>

-----------------------------------------------------------------------------
(* POST /process-document *)

\* The handler up to "await file.read()": the filename checks, then the
\* temporary file is created and the request waits for the upload's bytes.
IngestStart(u) ==
    LET ext == SplitExt(u.filename)
        path == TempPath(ingest_seq + 1, ext)
    IN  IF u.filename = <<>> \/ ~ExtensionAllowed(ext)
        THEN /\ resp' = [op |-> "ingest", status |-> 400,
                         detail |-> IF u.filename = <<>> THEN MsgNoFilename
                                    ELSE MsgBadExtension,
                         filename |-> u.filename, temp_path |-> None,
                         failed_at |-> "validation", was |-> StateKind]
             /\ served' = 1 - served
             /\ last_ok' = None
             /\ UNCHANGED <<vector_store, qa_chain, current_document_name,
                            chroma_db, temp_files, pending, ingest_seq>>
        ELSE /\ ingest_seq < MaxIngests
             /\ ingest_seq' = ingest_seq + 1
             /\ temp_files' = temp_files \cup {path}
             /\ pending' = pending \cup
                    {[id |-> ingest_seq + 1, filename |-> u.filename,
                      ext |-> ext, doc |-> u.doc, temp_path |-> path]}
             /\ last_ok' = None
             /\ UNCHANGED <<vector_store, qa_chain, current_document_name,
                            chroma_db, resp, served>>

\* process_document if the chain were built only when there is none yet.
ProcessDocumentKeepsChain(p, fail) ==
    /\ chroma_db' = IF Passed(fail, "embed")
                    THEN Some(Collection \cup Chunks(p.id, p.doc))
                    ELSE chroma_db
    /\ vector_store' = IF Passed(fail, "embed")
                       THEN Some([ingest |-> p.id])
                       ELSE vector_store
    /\ qa_chain' = IF Passed(fail, "chain") /\ qa_chain = None
                   THEN Some([ingest |-> p.id, k |-> TopK])
                   ELSE qa_chain
    /\ current_document_name' = IF Passed(fail, "chain")
                                THEN Some(Basename(p.temp_path))
                                ELSE current_document_name

\* process_document, as far as it gets before failing at fail: the index is
\* built and assigned, then the chain, then the document name.
ProcessDocument(p, fail) ==
    /\ chroma_db' = IF Passed(fail, "embed")
                    THEN Some(Collection \cup Chunks(p.id, p.doc))
                    ELSE chroma_db
    /\ vector_store' = IF Passed(fail, "embed")
                       THEN Some([ingest |-> p.id])
                       ELSE vector_store
    /\ qa_chain' = IF Passed(fail, "chain")
                   THEN Some([ingest |-> p.id, k |-> TopK])
                   ELSE qa_chain
    /\ current_document_name' = IF Passed(fail, "chain")
                                THEN Some(Basename(p.temp_path))
                                ELSE current_document_name

\* The handler from the point the upload's bytes arrive to its response.
IngestFinish(p, fail) ==
    /\ p \in pending
    /\ GetFileLoader(p.ext) = "ValueError" => ~Passed(fail, "load")
    /\ pending' = pending \ {p}
    /\ ProcessDocument(p, fail)
    /\ temp_files' = IF fail = "none" THEN temp_files \ {p.temp_path}
                     ELSE temp_files
    /\ resp' =
         IF fail = "none"
         THEN [op |-> "ingest", status |-> 200, id |-> p.id,
               document_name |-> p.filename,
               chunks_processed |-> Len(SplitLens(p.doc)),
               filename |-> p.filename, temp_path |-> Some(p.temp_path),
               failed_at |-> fail, was |-> StateKind]
         ELSE [op |-> "ingest", status |-> 500, id |-> p.id,
               detail |-> MsgIngestError,
               filename |-> p.filename, temp_path |-> Some(p.temp_path),
               failed_at |-> fail, was |-> StateKind]
    /\ served' = 1 - served
    /\ last_ok' = IF fail = "none"
                  THEN Some([id |-> p.id, filename |-> p.filename,
                             chunks_processed |-> Len(SplitLens(p.doc)),
                             was |-> StateKind])
                  ELSE None
    /\ UNCHANGED ingest_seq

-----------------------------------------------------------------------------

\* A step of the service alone: the event loop and the page are not involved.
Quiet == UNCHANGED <<loop, chat_history, waiting, ui>>

\* The service seen one request at a time, called by any number of clients.
Next ==
    \/ GetStatus /\ Quiet
    \/ \E r \in {"absent", "removed", "failed"} : ClearDocument(r) /\ Quiet
    \/ \E q \in Questions, o \in {"rejected", "ok", "error"} :
          AskQuestion(q, o) /\ Quiet
    \/ \E u \in Uploads : IngestStart(u) /\ Quiet
    \/ \E p \in pending, f \in {Stages[i] : i \in 1..Len(Stages)} :
          IngestFinish(p, f) /\ Quiet

Spec == Init /\ [][Next]_vars

-----------------------------------------------------------------------------
(* The event loop: every handler is an "async def" run by one loop, which   *)
(* runs a handler until it awaits or returns.  Only the upload handler      *)
(* awaits (file.read()); process_document and the chain are called          *)
(* synchronously, so the loop is held while they wait for the network.      *)

\* The loop if handlers ran side by side (threads, or an await in the call).
LoopFreeAlways == TRUE

\* The loop can start or resume a handler.
LoopFree == loop = None

\* The request the loop is running.
Running == Get(loop)

\* The loop is inside a call to the embedding or the generation service.
InExternalCall == loop # None /\ Running.pc = "external"

Backend == <<vector_store, qa_chain, current_document_name, chroma_db,
             temp_files, pending, ingest_seq, resp, served, last_ok>>

LoopGetStatus ==
    /\ LoopFree
    /\ GetStatus
    /\ UNCHANGED <<loop, client_vars>>

LoopClearDocument(rmtree) ==
    /\ LoopFree
    /\ ClearDocument(rmtree)
    /\ UNCHANGED <<loop, client_vars>>

\* The upload handler up to its await, where it gives the loop back.
LoopIngestStart(u) ==
    /\ LoopFree
    /\ IngestStart(u)
    /\ UNCHANGED <<loop, client_vars>>

\* file.read() raised: the handler answers 500 without calling process_document.
LoopIngestReadFailed(p) ==
    /\ LoopFree
    /\ IngestFinish(p, "read")
    /\ UNCHANGED <<loop, client_vars>>

\* The upload's bytes arrived: the handler resumes and calls process_document.
LoopIngestResume(p) ==
    /\ LoopFree
    /\ p \in pending
    /\ loop' = Some([op |-> "ingest", id |-> p.id, pc |-> "external"])
    /\ UNCHANGED <<Backend, client_vars>>

\* process_document returned or raised, and the handler answers.
LoopIngestReturn(p, fail) ==
    /\ loop = Some([op |-> "ingest", id |-> p.id, pc |-> "external"])
    /\ fail # "read"
    /\ IngestFinish(p, fail)
    /\ loop' = None
    /\ UNCHANGED client_vars

\* ask_question, the test of the globals (main.py:185).
LoopAskCheck(q) ==
    /\ LoopFree
    /\ IF AskRejected(qa_chain, vector_store)
       THEN /\ AskQuestion(q, "rejected")
            /\ UNCHANGED loop
       ELSE /\ loop' = Some([op |-> "ask", q |-> q, pc |-> "checked",
                             checked |-> qa_chain, chain |-> None])
            /\ UNCHANGED Backend
    /\ UNCHANGED client_vars

\* ask_question, the call qa_chain(...) (main.py:193): the global is read now.
LoopAskInvoke ==
    /\ loop # None
    /\ Running.op = "ask" /\ Running.pc = "checked"
    /\ loop' = Some([Running EXCEPT !.pc = "external", !.chain = qa_chain])
    /\ UNCHANGED <<Backend, client_vars>>

\* The chain returned ("ok") or raised ("error"; always so when it is None).
LoopAskReturn(outcome) ==
    /\ loop # None
    /\ Running.op = "ask" /\ Running.pc = "external"
    /\ outcome = "ok" => Running.chain # None
    /\ resp' =
         IF outcome = "ok"
         THEN LET docs == Retrieve(Running.q, Collection, TopK)
              IN  [op |-> "ask", status |-> 200, answer |-> "result",
                   sources |-> Sources(docs), retrieved |-> docs,
                   invoked |-> TRUE, was |-> StateKind,
                   checked |-> Running.checked, chain |-> Running.chain]
         ELSE [op |-> "ask", status |-> 500, detail |-> MsgAskError,
               invoked |-> TRUE, was |-> StateKind,
               checked |-> Running.checked, chain |-> Running.chain]
    /\ served' = 1 - served
    /\ loop' = None
    /\ UNCHANGED <<vector_store, qa_chain, current_document_name, chroma_db,
                   temp_files, pending, ingest_seq, last_ok, client_vars>>

NextLoop ==
    \/ LoopGetStatus
    \/ \E r \in {"absent", "removed", "failed"} : LoopClearDocument(r)
    \/ \E u \in Uploads : LoopIngestStart(u)
    \/ \E p \in pending : LoopIngestReadFailed(p)
    \/ \E p \in pending : LoopIngestResume(p)
    \/ \E p \in pending, f \in {Stages[i] : i \in 1..Len(Stages)} :
          LoopIngestReturn(p, f)
    \/ \E q \in Questions : LoopAskCheck(q)
    \/ LoopAskInvoke
    \/ \E o \in {"ok", "error"} : LoopAskReturn(o)

SpecLoop == Init /\ [][NextLoop]_vars

-----------------------------------------------------------------------------
(* The page (frontend/app.py): one session, its transcript, and the buttons *)
(* that call the service with the requests library.                         *)

\* What the network does to a call: the response arrives, the connection is
\* refused before the service sees the request, or the page gives up waiting
\* for a response the service does send.
Net == {"ok", "refused", "timeout"}

\* The ways an upload ends that the page's session goes through: the
\* embedding fails, the chain cannot be built, or the upload succeeds.
ClientStages == {"embed", "chain", "none"}

\* The question typed into the page.
ClientQuestions == {"newest"}

\* The files the uploader accepts (type=['pdf', 'txt']).
ClientUploads ==
    {u \in Uploads : Lower(SplitExt(u.filename)) \in AllowedExtensions}

\* get_system_status().get("document_loaded") at the time the page renders.
PageShowsDocument ==
    StatusResponse(vector_store, current_document_name,
                   Cardinality(Collection)).document_loaded

\* upload_document / ask_question / clear_document: the call succeeded.
CallSucceeded(net, status) == net = "ok" /\ status = 200

\* The ask handling with the user turn appended before the result is known.
AfterAskUserFirst(history, q, result) ==
    IF result # None
    THEN history \o << <<"user", q, <<>> >>,
                       <<"assistant", Get(result).answer, Get(result).sources>> >>
    ELSE Append(history, <<"user", q, <<>> >>)

\* The ask handling: the transcript after ask_question returned result.
AfterAsk(history, q, result) ==
    IF result # None
    THEN history \o << <<"user", q, <<>> >>,
                       <<"assistant", Get(result).answer, Get(result).sources>> >>
    ELSE history

\* The upload handling without the reset of the transcript.
AfterUploadKeeps(history, ok) == history

\* The upload handling: the transcript after upload_document returned.
AfterUpload(history, ok) == IF ok THEN <<>> ELSE history

\* The clear button: the transcript after clear_document returned.
AfterClear(history, ok) == IF ok THEN <<>> ELSE history

\* What the page showed for a button: n flips with every button handled.
Rendered(event, net, ok) ==
    [event |-> event, q |-> "", net |-> net, ok |-> ok, error |-> ~ok,
     n |-> 1 - ui.n, had |-> chat_history # <<>>]

\* "Enviar Pregunta".
ClientAsk(q, net, outcome) ==
    /\ waiting = None
    /\ PageShowsDocument
    /\ Len(chat_history) < 2 * MaxTurns
    /\ IF net = "refused"
       THEN outcome = "error" /\ UNCHANGED Backend
       ELSE AskQuestion(q, outcome)
    /\ LET ok == net # "refused" /\ CallSucceeded(net, resp'.status)
           result == IF ok THEN Some([answer |-> resp'.answer,
                                      sources |-> resp'.sources])
                     ELSE None
       IN  /\ chat_history' = AfterAsk(chat_history, q, result)
           /\ ui' = [Rendered("ask", net, ok) EXCEPT !.q = q]
    /\ UNCHANGED <<loop, waiting>>

\* "Procesar Documento": the request is sent and the page waits.
ClientUploadSend(u, net) ==
    /\ waiting = None
    /\ u \in ClientUploads
    /\ IF net = "refused"
       THEN /\ ui' = Rendered("upload", net, FALSE)
            /\ UNCHANGED <<Backend, waiting>>
       ELSE /\ net = "ok"
            /\ IngestStart(u)
            /\ waiting' = Some(ingest_seq + 1)
            /\ UNCHANGED ui
    /\ chat_history' = AfterUpload(chat_history, FALSE)
    /\ UNCHANGED loop

\* "Procesar Documento": the service answers, in time or too late.
ClientUploadReturn(p, fail, net) ==
    /\ waiting = Some(p.id)
    /\ net # "refused"
    /\ IngestFinish(p, fail)
    /\ waiting' = None
    /\ LET ok == CallSucceeded(net, resp'.status)
       IN  /\ chat_history' = AfterUpload(chat_history, ok)
           /\ ui' = Rendered("upload", net, ok)
    /\ UNCHANGED loop

\* "Limpiar Documento", shown when the status says a document is loaded.
ClientClearDocument(rmtree, net) ==
    /\ waiting = None
    /\ PageShowsDocument
    /\ IF net = "refused"
       THEN rmtree = "failed" /\ UNCHANGED Backend
       ELSE ClearDocument(rmtree)
    /\ LET ok == net # "refused" /\ CallSucceeded(net, resp'.status)
       IN  /\ chat_history' = AfterClear(chat_history, ok)
           /\ ui' = Rendered("clear", net, ok)
    /\ UNCHANGED <<loop, waiting>>

\* "Limpiar Chat".
ClientClearChat ==
    /\ waiting = None
    /\ PageShowsDocument
    /\ chat_history' = <<>>
    /\ ui' = Rendered("clear_chat", "ok", TRUE)
    /\ UNCHANGED <<Backend, loop, waiting>>

NextClient ==
    \/ \E q \in ClientQuestions, net \in Net, o \in {"rejected", "ok", "error"} :
          ClientAsk(q, net, o)
    \/ \E u \in Uploads, net \in Net : ClientUploadSend(u, net)
    \/ \E p \in pending, f \in ClientStages, net \in Net :
          ClientUploadReturn(p, f, net)
    \/ \E r \in {"absent", "removed", "failed"}, net \in Net :
          ClientClearDocument(r, net)
    \/ ClientClearChat

SpecClient == Init /\ [][NextClient]_vars

-----------------------------------------------------------------------------
(* Steps and states the properties speak about *)

\* The step sends the response of operation op.
Responds(op) == served' # served /\ resp'.op = op

\* The steps of an upload that failed in process_document.
ProcessingStages == {"load", "split", "embed", "chain"}

\* C1: an upload that fails at extraction, chunking, index build or chain
\* construction answers 500 and leaves vector_store, qa_chain and
\* current_document_name as they were before the call.
C1_FailedIngestKeepsState ==
    [][ (Responds("ingest") /\ resp'.failed_at \in ProcessingStages)
            => (resp'.status = 500 /\ system_state' = system_state) ]_vars

\* C2: after a successful upload of file F into the Empty service, GET /status
\* reports document_loaded with document_name the base name of F, the name the
\* upload response returned.
C2_StatusNamesUploadedFile ==
    (resp.op = "status" /\ last_ok # None /\ Get(last_ok).was = "empty")
        => /\ resp.document_loaded
           /\ resp.document_name = Some(Basename(Get(last_ok).filename))

\* C3: a successful upload into a Loaded service replaces the index: the
\* collection holds only the new upload's chunks, GET /status reports the new
\* file's name and a chunks_count equal to that upload's chunks_processed, and
\* a question retrieves only the new upload's chunks.
C3_ReingestReplacesIndex ==
    (last_ok # None /\ Get(last_ok).was = "loaded")
        => /\ \A c \in Collection : c.ingest = Get(last_ok).id
           /\ resp.op = "status" =>
                /\ resp.chunks_count = Some(Get(last_ok).chunks_processed)
                /\ resp.document_name = Some(Basename(Get(last_ok).filename))
           /\ (resp.op = "ask" /\ resp.status = 200) =>
                \A i \in 1..Len(resp.retrieved) :
                    resp.retrieved[i].ingest = Get(last_ok).id

\* C4: an upload with no filename, or with an extension that is not .pdf or
\* .txt in any letter case, answers 400, creates no temporary file, reaches no
\* loader, embedder or index, and leaves the state as it was.
C4_BadFilenameRejected ==
    [][ (Responds("ingest")
         /\ (resp'.filename = <<>>
             \/ Lower(SplitExt(resp'.filename)) \notin AllowedExtensions))
            => /\ resp'.status = 400
               /\ resp'.temp_path = None
               /\ resp'.failed_at = "validation"
               /\ UNCHANGED <<vector_store, qa_chain, current_document_name,
                              chroma_db, temp_files, pending, ingest_seq>> ]_vars

C4_Witness ==
    /\ resp.op = "ingest" /\ resp.status = 400
    /\ resp.filename = <<"c", ".", "d", "o", "c", "x">>
    /\ resp.was = "loaded"
    /\ StateKind = "loaded"

\* C5: a question asked while the service is Empty answers 400 "no document",
\* never calls the chain, and leaves the service Empty.
C5_AskWhileEmptyRejected ==
    [][ (Responds("ask") /\ StateKind = "empty")
            => /\ resp'.status = 400
               /\ resp'.detail = MsgNoDocument
               /\ ~resp'.invoked
               /\ system_state' = system_state
               /\ chroma_db' = chroma_db ]_vars

\* A question rejected after an upload succeeded and the document was cleared.
C5_Witness ==
    /\ resp.op = "ask" /\ resp.status = 400 /\ resp.was = "empty"
    /\ ingest_seq > 0 /\ pending = {} /\ temp_files = {}

\* C6: clearing answers the same success response from every state and leaves
\* the three globals empty, so a second clear does the same and a GET /status
\* that follows a clear reports document_loaded = false.
C6_ClearIdempotent ==
    [][ /\ Responds("clear") =>
              /\ resp'.status = 200
              /\ resp'.message = MsgCleared
              /\ vector_store' = None
              /\ qa_chain' = None
              /\ current_document_name' = None
        /\ (resp.op = "clear" /\ Responds("status")) =>
              ~resp'.document_loaded ]_vars

C6_Witness ==
    /\ resp.op = "clear" /\ resp.status = 200
    /\ resp.was = "loaded"
    /\ StateKind = "empty"

\* C7: each source preview is the chunk text itself when the chunk has at most
\* 100 characters, and its first 100 characters followed by "..." when it has
\* more; there is one preview per retrieved chunk, in retrieval order.
C7_PreviewTruncation ==
    (resp.op = "ask" /\ resp.status = 200)
        => /\ Len(resp.sources) = Len(resp.retrieved)
           /\ \A i \in 1..Len(resp.retrieved) :
                LET text == ChunkText(resp.retrieved[i])
                    shown == resp.sources[i]
                IN  IF Len(text) <= PreviewLimit
                    THEN shown = text
                    ELSE /\ Len(shown) = PreviewLimit + 3
                         /\ \A j \in 1..PreviewLimit : shown[j] = text[j]
                         /\ \A j \in 1..3 : shown[PreviewLimit + j] = "."

\* Sources holding a chunk of exactly 100 characters and a longer one.
C7_Witness ==
    /\ resp.op = "ask" /\ resp.status = 200
    /\ \E i, j \in 1..Len(resp.retrieved) :
          /\ Len(ChunkText(resp.retrieved[i])) = PreviewLimit
          /\ Len(ChunkText(resp.retrieved[j])) > PreviewLimit

\* C8: once an upload call has returned, with 200 or with 500, the temporary
\* file it created no longer exists.
C8_TempFileDeleted ==
    (resp.op = "ingest" /\ resp.status \in {200, 500})
        => Get(resp.temp_path) \notin temp_files

\* C9: when removing the on-disk index fails during a clear, the failure is
\* only logged: the response is the success response and the globals are empty.
C9_ClearSurvivesRmtreeFailure ==
    (resp.op = "clear" /\ resp.logged)
        => /\ resp.status = 200
           /\ resp.message = MsgCleared
           /\ StateKind = "empty"

C9_Witness ==
    /\ resp.op = "clear" /\ resp.logged
    /\ resp.was = "loaded"
    /\ chroma_db # None

\* C10: GET /status changes nothing; in Empty it reports document_loaded =
\* false with no name and no count, in Loaded document_loaded = true with the
\* current document name and the collection's count.
C10_StatusReadOnly ==
    [][ Responds("status")
            => /\ UNCHANGED <<vector_store, qa_chain, current_document_name,
                              chroma_db, temp_files, pending, ingest_seq>>
               /\ resp'.status = 200
               /\ StateKind = "empty" =>
                     /\ ~resp'.document_loaded
                     /\ resp'.document_name = None
                     /\ resp'.chunks_count = None
               /\ StateKind = "loaded" =>
                     /\ resp'.document_loaded
                     /\ resp'.document_name = current_document_name
                     /\ resp'.chunks_count = Some(Cardinality(Collection)) ]_vars

\* A status read of a collection that holds two uploads.
C10_Witness ==
    /\ resp.op = "status" /\ resp.document_loaded
    /\ StateKind = "loaded"
    /\ resp.chunks_count = Some(Cardinality(Collection))
    /\ \E c, d \in Collection : c.ingest # d.ingest

\* The three globals were all assigned by the upload with serial n.
FromIngest(n) ==
    /\ vector_store = Some([ingest |-> n])
    /\ qa_chain = Some([ingest |-> n, k |-> TopK])
    /\ \E u \in Uploads :
          current_document_name =
              Some(Basename(TempPath(n, SplitExt(u.filename))))

\* C14: in every reachable state the index handle, the chain and the document
\* name are all empty or all set by the same upload, and a GET /status that
\* reports document_loaded is answered from a state in which a question is
\* not rejected with 400.
C14_AllOrNothing ==
    /\ StateKind = "empty" \/ \E n \in 1..ingest_seq : FromIngest(n)
    /\ (resp.op = "status" /\ resp.document_loaded)
          => ~AskRejected(qa_chain, vector_store)

\* C15: a question never changes the service's state, whether it is answered
\* (200), rejected (400) or fails in the chain (500).
C15_AskReadOnly ==
    [][ Responds("ask")
            => /\ resp'.status \in {200, 400, 500}
               /\ UNCHANGED <<vector_store, qa_chain, current_document_name,
                              chroma_db, temp_files, pending, ingest_seq>> ]_vars

\* A question that failed in the chain, the document still loaded.
C15_Witness ==
    /\ resp.op = "ask" /\ resp.status = 500
    /\ resp.was = "loaded"
    /\ StateKind = "loaded"

\* C17: when two uploads overlap and both succeed, the one that returns last
\* wins: the index handle, the chain and the document name all come from it.
C17_LastIngestWins ==
    (resp.op = "ingest" /\ resp.status = 200)
        => /\ FromIngest(resp.id)
           /\ current_document_name = Some(Basename(Get(resp.temp_path)))

\* Upload 1 returned 200 after upload 2, which started later, had succeeded.
C17_Witness ==
    /\ resp.op = "ingest" /\ resp.status = 200 /\ resp.id = 1
    /\ FromIngest(1)
    /\ \E c \in Collection : c.ingest = 2
    /\ ingest_seq = 2 /\ pending = {} /\ temp_files = {}

\* C11: while a request waits inside a call to the embedding or generation
\* service, another request (GET /status, DELETE /clear-document) can be
\* handled before that call returns.
C11_ExternalWaitDoesNotBlock ==
    InExternalCall
        => /\ ENABLED LoopGetStatus
           /\ ENABLED (\E r \in {"absent", "removed", "failed"} :
                          LoopClearDocument(r))

\* C16: a question that passed the test of the globals calls the chain that
\* was there at the test, never an empty one, whatever other requests are in
\* flight; it is never answered 500 for a missing chain.
C16_AskInvokesCheckedChain ==
    [][ (Responds("ask") /\ resp'.invoked)
            => /\ resp'.chain # None
               /\ resp'.chain = resp'.checked ]_vars

\* A question answered while an upload was suspended at its await.
C16_Witness ==
    /\ resp.op = "ask" /\ resp.status = 200 /\ resp.invoked
    /\ resp.chain # None
    /\ pending # {}
    /\ loop = None

\* The step handles a button of the page.
Pressed == ui'.n # ui.n

\* The call the button made was answered 200 in time.
Answered200 == ui'.net = "ok" /\ resp'.status = 200

\* The transcript before the step is the beginning of the one after it.
Extended ==
    /\ Len(chat_history') >= Len(chat_history)
    /\ \A i \in 1..Len(chat_history) : chat_history'[i] = chat_history[i]

\* C12: a successful ask appends two entries to the transcript, the user turn
\* with the question and then the assistant turn with the answer and its
\* sources, and changes no earlier entry; a failed ask (an error status, a
\* timeout, a refused connection) leaves the transcript as it was and shows
\* an error.
C12_AskAppendsTwoTurns ==
    [][ (Pressed /\ ui'.event = "ask")
            => IF Answered200
               THEN /\ resp'.op = "ask"
                    /\ Len(chat_history') = Len(chat_history) + 2
                    /\ Extended
                    /\ chat_history'[Len(chat_history) + 1]
                          = <<"user", ui'.q, <<>> >>
                    /\ chat_history'[Len(chat_history) + 2]
                          = <<"assistant", resp'.answer, resp'.sources>>
                    /\ ~ui'.error
               ELSE /\ chat_history' = chat_history
                    /\ ui'.error ]_vars

\* A second question answered, appended after the first one's two turns.
C12_Witness ==
    /\ ui.event = "ask" /\ ui.q = "newest" /\ ui.ok
    /\ Len(chat_history) = 4
    /\ chat_history[3][1] = "user" /\ chat_history[4][1] = "assistant"

\* C13: the transcript only grows, except that it becomes empty when an
\* upload succeeds, when a clear of the document requested by the page
\* succeeds, or when the chat is cleared; a failed upload or a failed clear
\* leaves it unchanged.  Right after a successful upload it is empty, so it
\* holds no turn from before the upload.
C13_TranscriptResets ==
    [][ /\ ~Pressed => chat_history' = chat_history
        /\ (Pressed /\ ui'.event \in {"upload", "clear"}) =>
              IF Answered200 THEN chat_history' = <<>>
              ELSE chat_history' = chat_history
        /\ (Pressed /\ ui'.event = "clear_chat") => chat_history' = <<>>
        /\ (Pressed /\ ui'.event \notin {"upload", "clear", "clear_chat"}) =>
              Extended ]_vars

\* An upload that succeeded while the transcript held turns.
C13_Witness ==
    /\ ui.event = "upload" /\ ui.ok /\ ui.had
    /\ chat_history = <<>>
    /\ resp.op = "ingest" /\ resp.status = 200

====
